---------------------------- MODULE Spec2Model ----------------------------
(***************************************************************************)
(* Reasoning-part normalisation (aiSDKV5FormatAdapter) and reasoning       *)
(* duration tracking (useAISDKRuntime) of packages/react-ai-sdk.           *)
(*                                                                         *)
(* JavaScript values are modelled as follows.                              *)
(*   - a JSON scalar is a record [t, s, n] (Str, Num, Undef);              *)
(*   - an object is the sequence of its entries in enumeration order       *)
(*     (insertion order), because getItemId depends on that order;         *)
(*   - a message is a function from its top-level field names to their     *)
(*     values, so that rest/spread ({id, parts, ...message}) is a          *)
(*     restriction or an override of that function;                        *)
(*   - a part is a record [type, text, state, providerMetadata]; a field   *)
(*     the part does not carry is "" (text, state) or MetaAbsent.          *)
(***************************************************************************)
EXTENDS Integers, Sequences, FiniteSets, TLC

VARIABLES
    \* ---- format adapter (pure functions applied to drawn inputs) ----
    phase,              \* which adapter function has been applied
    message,            \* the UIMessage handed to encode
    filteredParts,      \* encode: parts after the filter step
    mergedParts,        \* encode: parts after mergeReasoningParts
    remerged,           \* mergeReasoningParts applied to mergedParts
    encoded,            \* encode: the value returned
    stored,             \* decode: the storage entry handed to decode
    decoded,            \* decode: the value returned
    metadata,           \* sanitizeProviderMetadata: its argument
    sanitized,          \* sanitizeProviderMetadata: the value returned
    reencoded,          \* encode applied to the message rebuilt from encoded
    probe,              \* getItemId: the part handed to it
    foundId,            \* getItemId: the value returned
    \* ---- useAISDKRuntime (reasoning duration tracking) ----
    messages,           \* chatHelpers.messages as the chat store holds it
    reasoningTimings,   \* React state: key -> {start, end?}
    reasoningDurations, \* React state: key -> seconds
    render,             \* what the last render closed over:
                        \*   [messages, reasoningTimings, reasoningDurations]
    depsChanged,        \* which effect dependencies got a new reference
                        \*   since the last render
    scheduled,          \* which effects the last render scheduled
    pc,                 \* "idle", or the effect that runs next
    setMessagesCalled,  \* the last write-back pass called setHelperMessages
    unrendered,         \* snapshots delivered since the last render
    rewrote,            \* history: the keys whose parts the last write-back
                        \*   pass rewrote
    written             \* history: key -> "fresh" if the write-back wrote
                        \*   the key's duration and no snapshot arrived
                        \*   since, "old" if one did

adapterVars == <<phase, message, filteredParts, mergedParts, remerged,
                 encoded, stored, decoded, metadata, sanitized, reencoded,
                 probe, foundId>>

runtimeVars == <<messages, reasoningTimings, reasoningDurations, render,
                 depsChanged, scheduled, pc, setMessagesCalled, unrendered,
                 rewrote, written>>

vars == <<adapterVars, runtimeVars>>

---------------------------------------------------------------------------
(* Bounds *)

\* longest parts array of a message handed to encode
MaxParts == 3

\* most messages in the live list, and most parts of a live message
MaxMessages == 1
MaxLiveParts == 2

\* most snapshots the chat helpers deliver between two renders
MaxUnrendered == 1

\* longest parts array of a payload read from storage
MaxStoredParts == 1

---------------------------------------------------------------------------
(* JavaScript values *)

Str(s) == [t |-> "str", s |-> s, n |-> 0]
Num(n) == [t |-> "num", s |-> "", n |-> n]
Undef  == [t |-> "undef", s |-> "", n |-> 0]

\* String(v)
JSString(v) ==
    CASE v.t = "str" -> v.s
      [] v.t = "num" -> ToString(v.n)
      [] OTHER       -> "undefined"

\* ToBoolean(v)
Truthy(v) ==
    CASE v.t = "str" -> v.s # ""
      [] v.t = "num" -> v.n # 0
      [] OTHER       -> FALSE

Min(S) == CHOOSE x \in S : \A y \in S : x <= y

\* one key/value entry of a provider's data object
Field(k, v) == [key |-> k, value |-> v]

\* one entry of providerMetadata: provider -> object
Provider(p, fields) ==
    [provider |-> p, isObject |-> TRUE, scalar |-> Undef, fields |-> fields]

\* one entry of providerMetadata whose value is not an object
ProviderScalar(p, v) ==
    [provider |-> p, isObject |-> FALSE, scalar |-> v, fields |-> <<>>]

\* part.providerMetadata: missing, a non-object value, or an object
MetaAbsent      == [kind |-> "absent", scalar |-> Undef, entries |-> <<>>]
MetaScalar(v)   == [kind |-> "scalar", scalar |-> v, entries |-> <<>>]
MetaObject(es)  == [kind |-> "object", scalar |-> Undef, entries |-> es]

\* ToBoolean(part.providerMetadata)
MetaTruthy(m) ==
    CASE m.kind = "absent" -> FALSE
      [] m.kind = "scalar" -> Truthy(m.scalar)
      [] OTHER             -> TRUE

\* !metadata || typeof metadata !== "object"
MetaIsObject(m) == m.kind = "object"

Part(type, text, state, meta) ==
    [type |-> type, text |-> text, state |-> state, providerMetadata |-> meta]

\* obj[key] of a provider's data object; Undef when the key is missing
Lookup(fields, key) ==
    LET hits == {j \in 1..Len(fields) : fields[j].key = key}
    IN  IF hits = {} THEN Undef ELSE fields[Min(hits)].value

HasKey(fields, key) == \E j \in 1..Len(fields) : fields[j].key = key

---------------------------------------------------------------------------
(* getItemId *)

NoItemId == [found |-> FALSE, value |-> ""]

\* a variant that returns the itemId of the last such provider
getItemIdLastProvider(part) ==
    LET md == part.providerMetadata IN
    IF ~MetaIsObject(md) THEN NoItemId
    ELSE LET hits == {i \in 1..Len(md.entries) :
                        /\ md.entries[i].isObject
                        /\ HasKey(md.entries[i].fields, "itemId")}
         IN  IF hits = {} THEN NoItemId
             ELSE [found |-> TRUE,
                   value |-> JSString(Lookup(
                       md.entries[CHOOSE i \in hits : \A j \in hits : j <= i]
                           .fields, "itemId"))]

\* first provider (enumeration order) whose data is an object with "itemId"
getItemId(part) ==
    LET md == part.providerMetadata IN
    IF ~MetaIsObject(md) THEN NoItemId
    ELSE LET hits == {i \in 1..Len(md.entries) :
                        /\ md.entries[i].isObject
                        /\ HasKey(md.entries[i].fields, "itemId")}
         IN  IF hits = {} THEN NoItemId
             ELSE [found |-> TRUE,
                   value |-> JSString(Lookup(md.entries[Min(hits)].fields,
                                             "itemId"))]

\* a variant that takes every string for a key, the empty one included
ItemIdTruthyFoundOnly(r) == r.found

\* `if (itemId)`: undefined and "" are falsy
ItemIdTruthy(r) == r.found /\ r.value # ""

---------------------------------------------------------------------------
(* sanitizeProviderMetadata *)

\* a variant that knows only one of the two deny-listed keys
IsDeniedKeyOnlyReasoning(key) == key = "reasoningEncryptedContent"

\* a variant that takes the duration for a key not to store either
IsDeniedKeyOrDuration(key) ==
    key \in {"reasoningEncryptedContent", "encryptedContent", "duration"}

IsDeniedKey(key) ==
    key = "reasoningEncryptedContent" \/ key = "encryptedContent"

\* a variant that keeps an allow-list (itemId) instead of dropping a deny-list
cleanDataAllowList(fields) == SelectSeq(fields, LAMBDA f : f.key = "itemId")

cleanData(fields) == SelectSeq(fields, LAMBDA f : ~IsDeniedKey(f.key))

\* a variant that skips, instead of copying, a provider whose data is no
\* object
sanitizeProviderMetadataSkipScalars(md) ==
    IF ~MetaIsObject(md) THEN md
    ELSE [md EXCEPT !.entries =
            LET kept == SelectSeq(@, LAMBDA e : e.isObject)
            IN  [i \in 1..Len(kept) |->
                    [kept[i] EXCEPT !.fields = cleanData(@)]]]

\* a variant that leaves out a provider whose cleaned data is empty
sanitizeProviderMetadataDropEmpty(md) ==
    IF ~MetaIsObject(md) THEN md
    ELSE [md EXCEPT !.entries =
            SelectSeq([i \in 1..Len(@) |->
                          IF ~@[i].isObject THEN @[i]
                          ELSE [@[i] EXCEPT !.fields = cleanData(@)]],
                      LAMBDA e : ~e.isObject \/ e.fields # <<>>)]

sanitizeProviderMetadata(md) ==
    IF ~MetaIsObject(md) THEN md
    ELSE [md EXCEPT !.entries =
            [i \in 1..Len(@) |->
                IF ~@[i].isObject THEN @[i]
                ELSE [@[i] EXCEPT !.fields = cleanData(@)]]]

---------------------------------------------------------------------------
(* mergeReasoningParts *)

\* Array.prototype.join("\n\n")
RECURSIVE JoinTexts(_)
JoinTexts(texts) ==
    IF texts = <<>> THEN ""
    ELSE IF Len(texts) = 1 THEN texts[1]
    ELSE texts[1] \o "\n\n" \o JoinTexts(Tail(texts))

\* first pass: the indices of the reasoning parts carrying itemId `id`
GroupIndices(parts, id) ==
    {i \in 1..Len(parts) :
        /\ parts[i].type = "reasoning"
        /\ ItemIdTruthy(getItemId(parts[i]))
        /\ getItemId(parts[i]).value = id}

\* group.parts: the members in the order they were pushed (index order)
RECURSIVE GroupParts(_, _, _)
GroupParts(parts, id, i) ==
    IF i > Len(parts) THEN <<>>
    ELSE (IF i \in GroupIndices(parts, id) THEN <<parts[i]>> ELSE <<>>)
         \o GroupParts(parts, id, i + 1)

TextsOf(ps) == [i \in 1..Len(ps) |-> ps[i].text]

\* a variant that takes the last member as the representative
MergedPartOfLast(group) ==
    [group[Len(group)] EXCEPT !.text = JoinTexts(TextsOf(group))]

\* a variant that ends the merged text with the separator
MergedPartTrailingBreak(group) ==
    [group[1] EXCEPT !.text = JoinTexts(TextsOf(group)) \o "\n\n"]

\* {...group.parts[0], text: mergedText}
MergedPart(group) == [group[1] EXCEPT !.text = JoinTexts(TextsOf(group))]

\* a variant that never skips a later member of a group
IsFirstOccurrenceAlways(parts, id, i) == TRUE

\* a variant that emits the merged part where the last member stood
IsLastOccurrence(parts, id, i) ==
    \A j \in GroupIndices(parts, id) : j <= i

\* index === Math.min(...group.indices)
IsFirstOccurrence(parts, id, i) == i = Min(GroupIndices(parts, id))

\* second pass, from index i on
RECURSIVE MergeFrom(_, _)
MergeFrom(parts, i) ==
    IF i > Len(parts) THEN <<>>
    ELSE LET part   == parts[i]
             itemId == getItemId(part)
             emitted ==
               IF part.type = "reasoning"
               THEN IF ItemIdTruthy(itemId)
                       /\ GroupIndices(parts, itemId.value) # {}
                    THEN IF ~IsFirstOccurrence(parts, itemId.value, i)
                         THEN <<>>
                         ELSE <<MergedPart(
                                  GroupParts(parts, itemId.value, 1))>>
                    ELSE <<part>>
               ELSE <<part>>
         IN  emitted \o MergeFrom(parts, i + 1)

mergeReasoningParts(parts) == MergeFrom(parts, 1)

---------------------------------------------------------------------------
(* aiSDKV5FormatAdapter *)

\* a variant that forgets the file parts
filterPartsStepStartOnly(parts) ==
    SelectSeq(parts, LAMBDA p : p.type # "step-start")

filterParts(parts) ==
    SelectSeq(parts, LAMBDA p : p.type # "file" /\ p.type # "step-start")

\* a variant that sanitizes the reasoning parts only
sanitizePartReasoningOnly(part) ==
    IF part.type # "reasoning" \/ ~MetaTruthy(part.providerMetadata) THEN part
    ELSE [part EXCEPT !.providerMetadata = sanitizeProviderMetadata(@)]

sanitizePart(part) ==
    IF ~MetaTruthy(part.providerMetadata) THEN part
    ELSE [part EXCEPT !.providerMetadata = sanitizeProviderMetadata(@)]

sanitizeParts(parts) == [i \in 1..Len(parts) |-> sanitizePart(parts[i])]

\* a variant that takes only parts off the message
encodeKeepsId(msg) ==
    [parts |-> sanitizeParts(mergeReasoningParts(filterParts(msg["parts"])))]
    @@ [k \in (DOMAIN msg) \ {"parts"} |-> msg[k]]

\* {...message, parts: sanitizedParts} with {id, parts, ...message} taken off
encode(msg) ==
    [parts |-> sanitizeParts(mergeReasoningParts(filterParts(msg["parts"])))]
    @@ [k \in (DOMAIN msg) \ {"id", "parts"} |-> msg[k]]

\* a variant that copies only the fields of UIMessage it knows
decodeKnownFields(entry) ==
    [parentId |-> entry.parent_id,
     message  |-> [k \in (DOMAIN entry.content) \cap {"role", "parts"} |->
                      entry.content[k]] @@ [id |-> entry.id]]

\* a variant that spreads the payload first: {...stored.content, id}
decodeEnvelopeIdLast(entry) ==
    [parentId |-> entry.parent_id,
     message  |-> [id |-> entry.id] @@ entry.content]

\* {parentId: stored.parent_id, message: {id: stored.id, ...stored.content}}
decode(entry) ==
    [parentId |-> entry.parent_id,
     message  |-> entry.content @@ [id |-> entry.id]]

getId(msg) == msg["id"]

---------------------------------------------------------------------------
(* Inputs of the format adapter *)

mdRs1 ==
    MetaObject(<<Provider("openai", <<Field("itemId", Str("rs1"))>>)>>)

mdRs1Enc ==
    MetaObject(<<Provider("openai",
        <<Field("itemId", Str("rs1")),
          Field("reasoningEncryptedContent", Str("gAAAA"))>>)>>)

mdRs2Dur ==
    MetaObject(<<Provider("openai",
        <<Field("itemId", Str("rs2")), Field("model", Str("o1-preview")),
          Field("reasoningEncryptedContent", Str("gBBBB"))>>),
      Provider("assistant-ui", <<Field("duration", Num(5))>>)>>)

mdCustom ==
    MetaObject(<<Provider("custom",
        <<Field("encryptedContent", Str("secret_data")),
          Field("safeField", Str("keep_this"))>>)>>)

mdAllDenied ==
    MetaObject(<<Provider("openai", <<Field("encryptedContent", Str("X"))>>)>>)

mdRaw == MetaScalar(Str("raw"))

mdEmptyId ==
    MetaObject(<<ProviderScalar("custom", Str("v")),
      Provider("openai", <<Field("itemId", Str(""))>>)>>)

mdTwoIds ==
    MetaObject(<<Provider("anthropic",
        <<Field("encryptedContent", Str("Y")), Field("itemId", Str("rs2"))>>),
      Provider("openai", <<Field("itemId", Str("rs1"))>>)>>)

PartPool ==
    { Part("step-start", "", "", MetaAbsent),
      Part("file", "", "", MetaAbsent),
      Part("text", "done", "", MetaAbsent),
      Part("text", "Hello", "", mdCustom),
      Part("tool-search", "", "output-available", mdRs1Enc),
      Part("reasoning", "A", "done", mdRs1),
      Part("reasoning", "B", "streaming", mdRs1Enc),
      Part("reasoning", "C", "done", mdRs2Dur),
      Part("reasoning", "A", "done", MetaAbsent),
      Part("reasoning", "D", "done", mdEmptyId),
      Part("reasoning", "E", "done", mdTwoIds),
      Part("reasoning", "F", "done", mdRaw),
      Part("reasoning", "", "done", mdAllDenied) }

PartSeqs == UNION {[1..n -> PartPool] : n \in 0..MaxParts}

\* a UIMessage: id, role, parts, and possibly further top-level fields
Messages ==
    { [id |-> "msg-1", role |-> "assistant", parts |-> ps] : ps \in PartSeqs }
    \cup
    { [id |-> "msg-1", role |-> "assistant", parts |-> ps,
       annotations |-> "test-annotation", data |-> "value"] : ps \in PartSeqs }

ParentIds == {"null", "msg-0"}

\* the payloads storage may hand back: what encode wrote, the same with a
\* field this adapter does not know, and the same with an id of its own
StoredPayloads ==
    LET encodedOnes == {encode(m) : m \in {m \in Messages :
                                         Len(m["parts"]) <= MaxStoredParts}}
    IN  encodedOnes
        \cup {[version |-> "2"] @@ c : c \in encodedOnes}
        \cup {[id |-> "legacy-7"] @@ c : c \in encodedOnes}

\* MessageStorageEntry<AISDKStorageFormat>
StorageEntries ==
    { [id |-> id, parent_id |-> parent, format |-> "ai-sdk/v5",
       content |-> c] :
        id \in {"msg-1", "msg-2"}, parent \in ParentIds,
        c \in StoredPayloads }

\* the values a provider may hold in the metadata getItemId is handed
ProbeProviders ==
    { ProviderScalar("custom", Str("v")),
      Provider("google", <<>>),
      Provider("azure", <<Field("model", Str("o1-preview"))>>),
      Provider("openai", <<Field("itemId", Str("rs1"))>>),
      Provider("anthropic", <<Field("model", Str("c")),
                              Field("itemId", Num(42))>>),
      Provider("xai", <<Field("itemId", Undef)>>),
      Provider("mistral", <<Field("itemId", Str(""))>>) }

\* providerMetadata: missing, not an object, or an object of up to two
\* providers in either order
ProbeMetadata ==
    {MetaAbsent, mdRaw, MetaScalar(Num(7)), MetaObject(<<>>)}
    \cup {MetaObject(<<a>>) : a \in ProbeProviders}
    \cup {MetaObject(<<a, b>>) : <<a, b>> \in
             {ab \in ProbeProviders \X ProbeProviders :
                ab[1].provider # ab[2].provider}}

ProbeParts ==
    {Part(type, "t", "done", md) :
        type \in {"reasoning", "text"}, md \in ProbeMetadata}

---------------------------------------------------------------------------
(* useAISDKRuntime: keys and clock *)

\* readings of Date.now(), in milliseconds; the wall clock may step back
ClockReadings == {1000, 2400}

MsPerSecond == 1000

\* `${msg.id}:${itemId}` or `${msg.id}:${idx}` (idx is zero-based)
TimingKey(msg, idx) ==
    LET itemId == getItemId(msg["parts"][idx])
    IN  IF ItemIdTruthy(itemId)
        THEN msg["id"] \o ":" \o itemId.value
        ELSE msg["id"] \o ":" \o ToString(idx - 1)

\* every (message index, part index) of a message list, in forEach order
RECURSIVE PartsFrom(_, _, _)
PartsFrom(msgs, m, i) ==
    IF m > Len(msgs) THEN <<>>
    ELSE IF i > Len(msgs[m]["parts"]) THEN PartsFrom(msgs, m + 1, 1)
    ELSE <<[m |-> m, i |-> i]>> \o PartsFrom(msgs, m, i + 1)

AllParts(msgs) == PartsFrom(msgs, 1, 1)

Remove(f, key) == [k \in (DOMAIN f) \ {key} |-> f[k]]

Put(f, key, v) == (key :> v) @@ f

\* a variant without the "no end yet" guard
EndMissingAlways(timing) == TRUE

\* !newTimings[key].end : no end, or an end of 0
EndMissing(timing) == ~timing.hasEnd \/ timing.end = 0

\* Math.ceil(d / 1000) of an integer d
CeilSeconds(d) ==
    IF d >= 0 THEN (d + MsPerSecond - 1) \div MsPerSecond
    ELSE -((-d) \div MsPerSecond)

\* a variant that rounds down
DurationSecondsFloor(start, end) ==
    IF end - start >= 0 THEN (end - start) \div MsPerSecond ELSE 0

\* Math.max(0, Math.ceil((end - start) / 1000))
DurationSeconds(start, end) ==
    IF CeilSeconds(end - start) > 0 THEN CeilSeconds(end - start) ELSE 0

---------------------------------------------------------------------------
(* useAISDKRuntime: the reasoning timing effect *)

\* the body of the inner forEach for one part, reading the clock as `now`
TimingStep(acc, msg, idx, now) ==
    LET part == msg["parts"][idx]
        key  == TimingKey(msg, idx)
    IN  IF part.type # "reasoning" THEN acc
        ELSE IF part.state = "streaming" /\ key \notin DOMAIN acc.timings
        THEN [timings  |-> Put(acc.timings, key,
                               [start |-> now, hasEnd |-> FALSE, end |-> 0]),
              durations |-> Remove(acc.durations, key),
              timingsChanged |-> TRUE,
              durationsChanged |->
                  acc.durationsChanged \/ key \in DOMAIN acc.durations]
        ELSE IF /\ part.state = "done"
                /\ key \in DOMAIN acc.timings
                /\ EndMissing(acc.timings[key])
        THEN LET existing == acc.timings[key]
                 durationSeconds == DurationSeconds(existing.start, now)
                 stale == \/ key \notin DOMAIN acc.durations
                          \/ acc.durations[key] # durationSeconds
             IN  [timings |-> Put(acc.timings, key,
                                  [existing EXCEPT !.hasEnd = TRUE,
                                                   !.end = now]),
                  durations |-> IF stale
                                THEN Put(acc.durations, key, durationSeconds)
                                ELSE acc.durations,
                  timingsChanged |-> TRUE,
                  durationsChanged |-> acc.durationsChanged \/ stale]
        ELSE acc

RECURSIVE TimingFold(_, _, _, _)
TimingFold(acc, msgs, todo, now) ==
    IF todo = <<>> THEN acc
    ELSE TimingFold(TimingStep(acc, msgs[todo[1].m], todo[1].i, now),
                    msgs, Tail(todo), now)

\* a variant that hands back the durations it was given
TrackTimingsKeepsDurations(msgs, timings, durations, now) ==
    [TimingFold([timings |-> timings, durations |-> durations,
                 timingsChanged |-> FALSE, durationsChanged |-> FALSE],
                msgs, AllParts(msgs), now)
        EXCEPT !.durations = durations]

\* newTimings, newDurations and the two changed flags after both forEach
TrackTimings(msgs, timings, durations, now) ==
    TimingFold([timings |-> timings, durations |-> durations,
                timingsChanged |-> FALSE, durationsChanged |-> FALSE],
               msgs, AllParts(msgs), now)

---------------------------------------------------------------------------
(* useAISDKRuntime: the cleanup effect *)

CurrentKeys(msgs) ==
    {TimingKey(msgs[m], i) : <<m, i>> \in
        {<<m, i>> \in (1..Len(msgs)) \X (1..(MaxLiveParts + 1)) :
            /\ i <= Len(msgs[m]["parts"])
            /\ msgs[m]["parts"][i].type = "reasoning"}}

\* a variant that filters nothing
FilterKeysKeepAll(prev, keys) == prev

\* Object.fromEntries(Object.entries(prev).filter(([key]) => keys.has(key)))
FilterKeys(prev, keys) == [k \in (DOMAIN prev) \cap keys |-> prev[k]]

---------------------------------------------------------------------------
(* useAISDKRuntime: the duration write-back effect *)

\* {...obj, [key]: value} on an object's entries: replaced in place or added
SetField(fields, key, value) ==
    IF HasKey(fields, key)
    THEN [j \in 1..Len(fields) |->
            IF fields[j].key = key THEN Field(key, value) ELSE fields[j]]
    ELSE Append(fields, Field(key, value))

\* part.providerMetadata?.["assistant-ui"] || {} ; metadata is an object of
\* objects here (UIMessage's type), or missing
ProviderFields(md, p) ==
    LET hits == {i \in 1..Len(md.entries) : md.entries[i].provider = p}
    IN  IF hits = {} \/ ~md.entries[Min(hits)].isObject THEN <<>>
        ELSE md.entries[Min(hits)].fields

SetProvider(md, p, fields) ==
    IF \E i \in 1..Len(md.entries) : md.entries[i].provider = p
    THEN MetaObject([i \in 1..Len(md.entries) |->
            IF md.entries[i].provider = p THEN Provider(p, fields)
            ELSE md.entries[i]])
    ELSE MetaObject(Append(md.entries, Provider(p, fields)))

\* part.providerMetadata?.["assistant-ui"]?.["duration"]
ExistingDuration(part) ==
    Lookup(ProviderFields(part.providerMetadata, "assistant-ui"), "duration")

\* a variant that writes into parts that are still streaming
NeedsDurationAnyState(part, key, durations) ==
    /\ part.type = "reasoning"
    /\ key \in DOMAIN durations
    /\ ExistingDuration(part) # Num(durations[key])

\* a variant that does not compare with the duration already stored
NeedsDurationAlways(part, key, durations) ==
    /\ part.type = "reasoning"
    /\ key \in DOMAIN durations
    /\ part.state = "done"

\* the part is rewritten: none of the four early returns is taken
NeedsDuration(part, key, durations) ==
    /\ part.type = "reasoning"
    /\ key \in DOMAIN durations
    /\ ExistingDuration(part) # Num(durations[key])
    /\ part.state = "done"

\* a variant that writes a fresh "assistant-ui" entry holding the duration
WithDurationFreshEntry(part, finalDuration) ==
    [part EXCEPT !.providerMetadata =
        SetProvider(@, "assistant-ui",
                    <<Field("duration", Num(finalDuration))>>)]

WithDuration(part, finalDuration) ==
    [part EXCEPT !.providerMetadata =
        SetProvider(@, "assistant-ui",
            SetField(ProviderFields(@, "assistant-ui"), "duration",
                     Num(finalDuration)))]

\* msg.parts.map(...) of the write-back
UpdatedParts(msg, durations) ==
    [i \in 1..Len(msg["parts"]) |->
        IF NeedsDuration(msg["parts"][i], TimingKey(msg, i), durations)
        THEN WithDuration(msg["parts"][i], durations[TimingKey(msg, i)])
        ELSE msg["parts"][i]]

MessageChanged(msg, durations) ==
    \E i \in 1..Len(msg["parts"]) :
        NeedsDuration(msg["parts"][i], TimingKey(msg, i), durations)

\* a variant that returns msg where {...msg, parts: updatedParts} is due
UpdatedMessagesKeepParts(msgs, durations) == msgs

\* helperMessages.map(...) of the write-back
UpdatedMessages(msgs, durations) ==
    [m \in 1..Len(msgs) |->
        IF MessageChanged(msgs[m], durations)
        THEN [msgs[m] EXCEPT !["parts"] = UpdatedParts(msgs[m], durations)]
        ELSE msgs[m]]

\* the keys of the parts the write-back rewrites
RewrittenKeys(msgs, durations) ==
    UNION { {TimingKey(msgs[m], i) :
                i \in {i \in 1..Len(msgs[m]["parts"]) :
                         NeedsDuration(msgs[m]["parts"][i],
                                       TimingKey(msgs[m], i), durations)}} :
            m \in 1..Len(msgs) }

\* a variant that writes whenever a duration is tracked
HasChangesWheneverTracked(msgs, durations) == DOMAIN durations # {}

HasChanges(msgs, durations) ==
    /\ DOMAIN durations # {}
    /\ \E m \in 1..Len(msgs) : MessageChanged(msgs[m], durations)

---------------------------------------------------------------------------
(* The live message list, as the chat helpers deliver it *)

MsgIds == {"m" \o ToString(n) : n \in 1..MaxMessages}

\* a part whose assistant-ui namespace already holds a key of its own
mdNoted ==
    MetaObject(<<Provider("assistant-ui", <<Field("note", Str("n"))>>),
      Provider("openai", <<Field("itemId", Str("rs1"))>>)>>)

NewParts ==
    { Part("text", "hi", "", MetaAbsent),
      Part("reasoning", "r", "done", mdNoted),
      Part("reasoning", "r", "streaming", MetaAbsent),
      Part("reasoning", "r", "streaming", mdRs1),
      Part("reasoning", "r", "done", MetaAbsent),
      Part("reasoning", "r", "done", mdRs1) }

WithoutDuration(part) ==
    IF ExistingDuration(part) = Undef THEN part
    ELSE [part EXCEPT !.providerMetadata =
            IF ProviderFields(@, "assistant-ui") = <<Field("duration",
                                          ExistingDuration(part))>>
            THEN IF Len(@.entries) = 1 THEN MetaAbsent
                 ELSE MetaObject(SelectSeq(@.entries,
                          LAMBDA e : e.provider # "assistant-ui"))
            ELSE SetProvider(@, "assistant-ui",
                     SelectSeq(ProviderFields(@, "assistant-ui"),
                               LAMBDA f : f.key # "duration"))]

\* the snapshots the chat helpers may deliver next
NextSnapshots(msgs) ==
    \* a new message starts
    { Append(msgs, [id |-> id, role |-> "assistant", parts |-> <<>>]) :
        id \in {id \in MsgIds : /\ Len(msgs) < MaxMessages
                                /\ \A m \in 1..Len(msgs) : msgs[m]["id"] # id} }
    \cup
    \* the last message is deleted
    { SubSeq(msgs, 1, Len(msgs) - 1) : x \in {x \in {1} : Len(msgs) > 0} }
    \cup
    \* a part is streamed in
    { [msgs EXCEPT ![m]["parts"] = Append(@, p)] :
        <<m, p>> \in {<<m, p>> \in (1..Len(msgs)) \X NewParts :
                        Len(msgs[m]["parts"]) < MaxLiveParts} }
    \cup
    \* a reasoning part changes state
    { [msgs EXCEPT ![mi[1]]["parts"][mi[2]].state =
            IF @ = "streaming" THEN "done" ELSE "streaming"] :
        mi \in {mi \in (1..Len(msgs)) \X (1..(MaxLiveParts + 1)) :
                  /\ mi[2] <= Len(msgs[mi[1]]["parts"])
                  /\ msgs[mi[1]]["parts"][mi[2]].type = "reasoning"} }
    \cup
    \* a message is regenerated: its parts start over
    { [msgs EXCEPT ![m]["parts"] = <<>>] : m \in 1..Len(msgs) }
    \cup
    \* the stream writes its own copy of the parts, without the durations
    { [m \in 1..Len(msgs) |->
        [msgs[m] EXCEPT !["parts"] =
            [i \in 1..Len(@) |-> WithoutDuration(@[i])]]] }

---------------------------------------------------------------------------
(* useAISDKRuntime as a state machine *)

InitRuntime ==
    /\ messages = <<>>
    /\ reasoningTimings = <<>>
    /\ reasoningDurations = <<>>
    /\ render = [messages |-> <<>>, reasoningTimings |-> <<>>,
                 reasoningDurations |-> <<>>]
    \* the first render runs every effect
    /\ depsChanged = [messages |-> TRUE, timings |-> TRUE, durations |-> TRUE]
    /\ scheduled = [timing |-> FALSE, cleanup |-> FALSE, writeBack |-> FALSE]
    /\ pc = "idle"
    /\ setMessagesCalled = FALSE
    /\ unrendered = 0
    /\ rewrote = {}
    /\ written = <<>>

\* the chat helpers deliver a new snapshot; passive effects of the last
\* render may still be pending (pc = "timing")
Upstream ==
    /\ pc \in {"idle", "timing"}
    /\ unrendered < MaxUnrendered
    /\ unrendered' = unrendered + 1
    /\ \E snapshot \in NextSnapshots(messages) \ {messages} :
          messages' = snapshot
    /\ depsChanged' = [depsChanged EXCEPT !.messages = TRUE]
    /\ written' = [k \in DOMAIN written |-> "old"]
    /\ UNCHANGED <<reasoningTimings, reasoningDurations, render, scheduled,
                   pc, setMessagesCalled, rewrote>>
    /\ UNCHANGED adapterVars

\* a render: the effects whose dependencies changed are scheduled
Render ==
    /\ pc = "idle"
    /\ depsChanged.messages \/ depsChanged.timings \/ depsChanged.durations
    /\ render' = [messages |-> messages,
                  reasoningTimings |-> reasoningTimings,
                  reasoningDurations |-> reasoningDurations]
    /\ scheduled' =
         [timing    |-> TRUE,
          cleanup   |-> depsChanged.messages,
          writeBack |-> depsChanged.messages \/ depsChanged.durations]
    /\ depsChanged' = [messages |-> FALSE, timings |-> FALSE,
                       durations |-> FALSE]
    /\ pc' = "timing"
    /\ unrendered' = 0
    /\ setMessagesCalled' = FALSE
    /\ rewrote' = {}
    /\ UNCHANGED <<messages, reasoningTimings, reasoningDurations, written>>
    /\ UNCHANGED adapterVars

\* useEffect #1: track reasoning state transitions
TimingEffect ==
    /\ pc = "timing"
    /\ pc' = "cleanup"
    /\ \E now \in ClockReadings :
         LET r == TrackTimings(render.messages, render.reasoningTimings,
                               render.reasoningDurations, now)
         IN  /\ reasoningTimings' =
                  IF r.timingsChanged THEN r.timings ELSE reasoningTimings
             /\ reasoningDurations' =
                  IF r.durationsChanged THEN r.durations
                  ELSE reasoningDurations
             /\ depsChanged' =
                  [depsChanged EXCEPT
                     !.timings = @ \/ r.timingsChanged,
                     !.durations = @ \/ r.durationsChanged]
    \* a key that starts over starts a new history
    /\ written' = [k \in (DOMAIN written) \
                            ((DOMAIN reasoningTimings') \
                             (DOMAIN reasoningTimings)) |-> written[k]]
    /\ UNCHANGED <<messages, render, scheduled, setMessagesCalled,
                   unrendered, rewrote>>
    /\ UNCHANGED adapterVars

\* useEffect #2: remove timing data for messages that no longer exist
CleanupEffect ==
    /\ pc = "cleanup"
    /\ pc' = "writeback"
    /\ IF scheduled.cleanup
       THEN LET currentKeys == CurrentKeys(render.messages)
                timings   == FilterKeys(reasoningTimings, currentKeys)
                durations == FilterKeys(reasoningDurations, currentKeys)
            IN  /\ reasoningTimings' = timings
                /\ reasoningDurations' = durations
                /\ depsChanged' =
                     [depsChanged EXCEPT
                        !.timings = @ \/ (DOMAIN timings #
                                              DOMAIN reasoningTimings),
                        !.durations = @ \/ (DOMAIN durations #
                                              DOMAIN reasoningDurations)]
                \* the history of a key ends with its timing entry
                /\ written' = [k \in (DOMAIN written) \cap (DOMAIN timings)
                                  |-> written[k]]
       ELSE UNCHANGED <<reasoningTimings, reasoningDurations, depsChanged,
                        written>>
    /\ UNCHANGED <<messages, render, scheduled, setMessagesCalled,
                   unrendered, rewrote>>
    /\ UNCHANGED adapterVars

\* useEffect #3: persist final durations into providerMetadata
WriteBackEffect ==
    /\ pc = "writeback"
    /\ pc' = "idle"
    /\ IF /\ scheduled.writeBack
          /\ HasChanges(render.messages, render.reasoningDurations)
       THEN /\ messages' = UpdatedMessages(render.messages,
                                           render.reasoningDurations)
            /\ depsChanged' = [depsChanged EXCEPT !.messages = TRUE]
            /\ setMessagesCalled' = TRUE
            /\ rewrote' = RewrittenKeys(render.messages,
                                        render.reasoningDurations)
            /\ written' = [k \in (DOMAIN written) \cup rewrote' |->
                              IF k \in rewrote' THEN "fresh" ELSE written[k]]
       ELSE /\ setMessagesCalled' = FALSE
            /\ rewrote' = {}
            /\ UNCHANGED <<messages, depsChanged, written>>
    /\ UNCHANGED <<reasoningTimings, reasoningDurations, render, scheduled,
                   unrendered>>
    /\ UNCHANGED adapterVars

---------------------------------------------------------------------------
(* The format adapter applied to drawn inputs *)

InitAdapter ==
    /\ phase = "input"
    /\ filteredParts = <<>>
    /\ mergedParts = <<>>
    /\ remerged = <<>>
    /\ encoded = <<>>
    /\ stored = <<>>
    /\ decoded = <<>>
    /\ metadata = MetaAbsent
    /\ sanitized = MetaAbsent
    /\ reencoded = <<>>
    /\ probe = Part("text", "", "", MetaAbsent)
    /\ foundId = NoItemId

\* aiSDKV5FormatAdapter.encode({message})
Encode ==
    /\ phase = "input"
    /\ filteredParts' = filterParts(message["parts"])
    /\ mergedParts' = mergeReasoningParts(filteredParts')
    /\ encoded' = encode(message)
    /\ phase' = "encoded"
    /\ UNCHANGED <<message, remerged, stored, decoded, metadata, sanitized>>
    /\ UNCHANGED <<reencoded, probe, foundId>>
    /\ UNCHANGED runtimeVars

\* aiSDKV5FormatAdapter.decode of the entry that stores the encoded message
Decode ==
    /\ phase = "encoded"
    /\ \E parent \in ParentIds :
          stored' = [id |-> message["id"], parent_id |-> parent,
                     format |-> "ai-sdk/v5", content |-> encoded]
    /\ decoded' = decode(stored')
    /\ phase' = "decoded"
    /\ UNCHANGED <<message, filteredParts, mergedParts, remerged, encoded,
                   metadata, sanitized>>
    /\ UNCHANGED <<reencoded, probe, foundId>>
    /\ UNCHANGED runtimeVars

\* sanitizeProviderMetadata applied to the metadata of one part
Sanitize ==
    /\ phase = "input"
    /\ \E i \in 1..Len(message["parts"]) :
          metadata' = message["parts"][i].providerMetadata
    /\ sanitized' = sanitizeProviderMetadata(metadata')
    /\ phase' = "sanitized"
    /\ UNCHANGED <<message, filteredParts, mergedParts, remerged, encoded,
                   stored, decoded>>
    /\ UNCHANGED <<reencoded, probe, foundId>>
    /\ UNCHANGED runtimeVars

\* mergeReasoningParts applied a second time, to the parts it returned
Remerge ==
    /\ phase = "encoded"
    /\ remerged' = mergeReasoningParts(mergedParts)
    /\ phase' = "remerged"
    /\ UNCHANGED <<message, filteredParts, mergedParts, encoded, stored,
                   decoded, metadata, sanitized>>
    /\ UNCHANGED <<reencoded, probe, foundId>>
    /\ UNCHANGED runtimeVars

\* aiSDKV5FormatAdapter.decode of an entry read from storage
DecodeEntry ==
    /\ phase = "stored"
    /\ decoded' = decode(stored)
    /\ phase' = "loaded"
    /\ UNCHANGED <<message, filteredParts, mergedParts, remerged, encoded,
                   stored, metadata, sanitized>>
    /\ UNCHANGED <<reencoded, probe, foundId>>
    /\ UNCHANGED runtimeVars

\* encode of the message a load gives back: the encoded value with the
\* message's id put back on it
Reencode ==
    /\ phase = "encoded"
    /\ reencoded' = encode(encoded @@ [id |-> getId(message)])
    /\ phase' = "reencoded"
    /\ UNCHANGED <<message, filteredParts, mergedParts, remerged, encoded,
                   stored, decoded, metadata, sanitized, probe, foundId>>
    /\ UNCHANGED runtimeVars

\* getItemId applied to one part
GetItemId ==
    /\ phase = "probe"
    /\ foundId' = getItemId(probe)
    /\ phase' = "probed"
    /\ UNCHANGED <<message, filteredParts, mergedParts, remerged, encoded,
                   stored, decoded, metadata, sanitized, reencoded, probe>>
    /\ UNCHANGED runtimeVars

---------------------------------------------------------------------------
(* Specifications *)

\* the format adapter on every message of Messages
InitEncode ==
    /\ message \in Messages
    /\ InitAdapter
    /\ InitRuntime

NextEncode == Encode \/ Decode \/ Sanitize \/ Remerge \/ Reencode

SpecEncode == InitEncode /\ [][NextEncode]_vars

\* decode on every entry of StorageEntries
InitDecode ==
    /\ message = [id |-> "msg-1", role |-> "assistant", parts |-> <<>>]
    /\ stored \in StorageEntries
    /\ phase = "stored"
    /\ filteredParts = <<>>
    /\ mergedParts = <<>>
    /\ remerged = <<>>
    /\ encoded = <<>>
    /\ decoded = <<>>
    /\ metadata = MetaAbsent
    /\ sanitized = MetaAbsent
    /\ reencoded = <<>>
    /\ probe = Part("text", "", "", MetaAbsent)
    /\ foundId = NoItemId
    /\ InitRuntime

NextDecode == DecodeEntry

SpecDecode == InitDecode /\ [][NextDecode]_vars

\* getItemId on every part of ProbeParts
InitItemId ==
    /\ message = [id |-> "msg-1", role |-> "assistant", parts |-> <<>>]
    /\ probe \in ProbeParts
    /\ phase = "probe"
    /\ filteredParts = <<>>
    /\ mergedParts = <<>>
    /\ remerged = <<>>
    /\ encoded = <<>>
    /\ stored = <<>>
    /\ decoded = <<>>
    /\ metadata = MetaAbsent
    /\ sanitized = MetaAbsent
    /\ reencoded = <<>>
    /\ foundId = NoItemId
    /\ InitRuntime

NextItemId == GetItemId

SpecItemId == InitItemId /\ [][NextItemId]_vars

\* the runtime hook under every interleaving of snapshots and renders
Init ==
    /\ message = [id |-> "msg-1", role |-> "assistant", parts |-> <<>>]
    /\ InitAdapter
    /\ InitRuntime

Next ==
    \/ Upstream
    \/ Render
    \/ TimingEffect
    \/ CleanupEffect
    \/ WriteBackEffect

Spec == Init /\ [][Next]_vars

\* an effect runs: the step that moves pc from the effect to what follows
\* it. Only TimingEffect, CleanupEffect and WriteBackEffect move pc off
\* "timing", "cleanup" and "writeback", and each is enabled whenever pc
\* stands there, so that weak fairness of this step is weak fairness of
\* the effect (TLC evaluates ENABLED of the step without evaluating the
\* effect's body).
Runs(effect, then) == pc = effect /\ pc' = then

\* React runs a pending render and every effect the render scheduled; the
\* chat helpers are free to deliver a snapshot or not
Fairness ==
    /\ WF_vars(Render)
    /\ WF_pc(Runs("timing", "cleanup"))
    /\ WF_pc(Runs("cleanup", "writeback"))
    /\ WF_pc(Runs("writeback", "idle"))

SpecLive == Init /\ [][Next]_vars /\ Fairness

---------------------------------------------------------------------------
(* Properties of the format adapter (checked under SpecEncode) *)

Encoded == phase \in {"encoded", "decoded"}

Count(seq, Test(_)) == Cardinality({i \in 1..Len(seq) : Test(seq[i])})

\* the part carries a confidential key directly inside some namespace
CarriesConfidentialKey(part) ==
    /\ part.providerMetadata.kind = "object"
    /\ \E i \in 1..Len(part.providerMetadata.entries) :
          LET e == part.providerMetadata.entries[i] IN
          /\ e.isObject
          /\ \E j \in 1..Len(e.fields) :
                e.fields[j].key \in
                    {"reasoningEncryptedContent", "encryptedContent"}

\* the part is a reasoning fragment whose correlation key is k
HasCorrelationKey(part, k) ==
    /\ part.type = "reasoning"
    /\ getItemId(part).found
    /\ getItemId(part).value # ""
    /\ getItemId(part).value = k

CorrelationKeys(parts) ==
    {k \in {getItemId(parts[i]).value : i \in 1..Len(parts)} :
        \E i \in 1..Len(parts) : HasCorrelationKey(parts[i], k)}

\* the key-k reasoning fragments, in their original order
Members(parts, k) == SelectSeq(parts, LAMBDA p : HasCorrelationKey(p, k))

RECURSIVE BlankLineJoin(_)
BlankLineJoin(ps) ==
    IF Len(ps) = 0 THEN ""
    ELSE IF Len(ps) = 1 THEN ps[1].text
    ELSE ps[1].text \o "\n\n" \o BlankLineJoin(Tail(ps))

\* C1: no fragment of encode's output has reasoningEncryptedContent or
\* encryptedContent directly inside a namespace of its providerMetadata,
\* whichever input fragment carried it.
C1_NoConfidentialKeyStored ==
    Encoded =>
        \A i \in 1..Len(encoded["parts"]) :
            ~CarriesConfidentialKey(encoded["parts"][i])

\* a later member of a merged group and a non-reasoning fragment both
\* carried a confidential key, and the message has been encoded
C1_Witness ==
    /\ phase = "encoded"
    /\ \E i, j \in 1..Len(message["parts"]) :
          /\ i < j
          /\ \E k \in CorrelationKeys(message["parts"]) :
                /\ HasCorrelationKey(message["parts"][i], k)
                /\ HasCorrelationKey(message["parts"][j], k)
          /\ CarriesConfidentialKey(message["parts"][j])
    /\ \E i \in 1..Len(message["parts"]) :
          /\ message["parts"][i].type = "text"
          /\ CarriesConfidentialKey(message["parts"][i])

\* C2: for every correlation key k of the message, the reasoning fragment
\* emitted for k has the texts of all key-k fragments joined in order with
\* a blank line, and, before sanitization, every other field equal to that
\* of the first key-k fragment.
C2_MergedFragment ==
    Encoded =>
        /\ Len(mergedParts) = Len(encoded["parts"])
        /\ \A k \in CorrelationKeys(message["parts"]) :
              LET members == Members(message["parts"], k)
                  emitted == {j \in 1..Len(encoded["parts"]) :
                                HasCorrelationKey(encoded["parts"][j], k)}
              IN  /\ emitted # {}
                  /\ \A j \in emitted :
                        /\ encoded["parts"][j].text = BlankLineJoin(members)
                        /\ mergedParts[j].text = BlankLineJoin(members)
                        /\ mergedParts[j].type = members[1].type
                        /\ mergedParts[j].state = members[1].state
                        /\ mergedParts[j].providerMetadata =
                               members[1].providerMetadata

\* a group of two members that differ in state and metadata was merged
C2_Witness ==
    /\ phase = "encoded"
    /\ \E k \in CorrelationKeys(message["parts"]) :
          LET members == Members(message["parts"], k) IN
          /\ Len(members) >= 2
          /\ members[1].state # members[2].state
          /\ members[1].providerMetadata # members[2].providerMetadata

\* C3: the output holds exactly one reasoning fragment per correlation key
\* of the input, and fragments with different keys are never merged: the
\* output's reasoning fragments are one per key plus the keyless ones.
C3_OneFragmentPerKey ==
    Encoded =>
        /\ CorrelationKeys(encoded["parts"]) =
               CorrelationKeys(message["parts"])
        /\ \A k \in CorrelationKeys(message["parts"]) :
              Cardinality({j \in 1..Len(encoded["parts"]) :
                  HasCorrelationKey(encoded["parts"][j], k)}) = 1
        /\ Count(encoded["parts"], LAMBDA p : p.type = "reasoning") =
               Cardinality(CorrelationKeys(message["parts"]))
               + Count(message["parts"], LAMBDA p :
                     /\ p.type = "reasoning"
                     /\ \A k \in CorrelationKeys(message["parts"]) :
                           ~HasCorrelationKey(p, k))

\* two correlation keys, one of them carried by two fragments
C3_Witness ==
    /\ phase = "encoded"
    /\ Cardinality(CorrelationKeys(message["parts"])) = 2
    /\ \E k \in CorrelationKeys(message["parts"]) :
          Len(Members(message["parts"], k)) = 2

\* C4: the filter step removes every step-start and every file fragment and
\* nothing else: the length drops by their number, every other fragment is
\* kept as often as it occurred, and an input that is empty or made only of
\* step-start fragments encodes to zero fragments.
C4_FilterRemovesOnlyMarkers ==
    Encoded =>
        LET parts == message["parts"] IN
        /\ Len(filteredParts) =
               Len(parts) - Count(parts, LAMBDA p : p.type = "step-start")
                          - Count(parts, LAMBDA p : p.type = "file")
        /\ \A i \in 1..Len(filteredParts) :
              filteredParts[i].type \notin {"step-start", "file"}
        /\ \A i \in 1..Len(parts) :
              parts[i].type \notin {"step-start", "file"} =>
                  Count(filteredParts, LAMBDA p : p = parts[i]) =
                  Count(parts, LAMBDA p : p = parts[i])
        /\ (\A i \in 1..Len(parts) : parts[i].type = "step-start") =>
              Len(encoded["parts"]) = 0

\* a message with a step-start, a file and another fragment was encoded
C4_Witness ==
    /\ phase = "encoded"
    /\ \E i, j, l \in 1..Len(message["parts"]) :
          /\ message["parts"][i].type = "step-start"
          /\ message["parts"][j].type = "file"
          /\ message["parts"][l].type = "text"
    /\ Len(filteredParts) = 1

\* C10: sanitizeProviderMetadata keeps every namespace and, inside each,
\* every key other than the two confidential ones with its value; metadata
\* that is absent or not a map, and a namespace whose value is not a map,
\* are returned unchanged.
C10_SanitizerKeepsSafeFields ==
    phase = "sanitized" =>
        IF metadata.kind # "object" THEN sanitized = metadata
        ELSE /\ sanitized.kind = "object"
             /\ Len(sanitized.entries) = Len(metadata.entries)
             /\ \A i \in 1..Len(metadata.entries) :
                   LET a == metadata.entries[i]
                       b == sanitized.entries[i]
                   IN  /\ b.provider = a.provider
                       /\ ~a.isObject => b = a
                       /\ a.isObject =>
                            /\ b.isObject
                            /\ \A j \in 1..Len(a.fields) :
                                  a.fields[j].key \notin
                                    {"reasoningEncryptedContent",
                                     "encryptedContent"}
                                  => \E l \in 1..Len(b.fields) :
                                        b.fields[l] = a.fields[j]

\* metadata with itemId, model, a confidential key and the assistant-ui
\* duration has been sanitized
C10_Witness ==
    /\ phase = "sanitized"
    /\ metadata.kind = "object"
    /\ \E i, d \in 1..Len(metadata.entries) :
          /\ metadata.entries[i].isObject
          /\ \A key \in {"itemId", "model", "reasoningEncryptedContent"} :
                \E j \in 1..Len(metadata.entries[i].fields) :
                    metadata.entries[i].fields[j].key = key
          /\ metadata.entries[d].provider = "assistant-ui"
          /\ \E j \in 1..Len(metadata.entries[d].fields) :
                metadata.entries[d].fields[j].key = "duration"

\* C11: the value encode returns has no id field and carries every other
\* top-level field of the message with its value; parts alone is replaced,
\* by the filtered, merged and sanitized fragments.
C11_TopLevelFieldsKept ==
    Encoded =>
        /\ "id" \notin DOMAIN encoded
        /\ DOMAIN encoded = (DOMAIN message) \ {"id"}
        /\ \A k \in (DOMAIN message) \ {"id", "parts"} :
              encoded[k] = message[k]
        /\ Len(encoded["parts"]) = Len(mergedParts)

\* a message with annotations and data next to id, role and parts, whose
\* parts encode changes, has been encoded
C11_Witness ==
    /\ phase = "encoded"
    /\ {"id", "role", "annotations", "data"} \subseteq DOMAIN message
    /\ encoded["parts"] # message["parts"]
    /\ encoded["parts"] # <<>>

\* C12: decode returns the envelope's parent_id as parentId and a message
\* holding every field of the envelope's content with its value, a field
\* the adapter does not know included.
C12_DecodeKeepsPayload ==
    phase = "loaded" =>
        /\ decoded.parentId = stored.parent_id
        /\ \A k \in DOMAIN stored.content :
              /\ k \in DOMAIN decoded.message
              /\ decoded.message[k] = stored.content[k]

\* an envelope with a parent and a payload carrying an unknown field and a
\* reasoning fragment has been decoded
C12_Witness ==
    /\ phase = "loaded"
    /\ stored.parent_id = "msg-0"
    /\ "version" \in DOMAIN stored.content
    /\ \E i \in 1..Len(stored.content["parts"]) :
          stored.content["parts"][i].type = "reasoning"

\* encode changes nothing in the parts of m: no step-start or file
\* fragment, no correlation key carried twice, no confidential key
EncodeKeepsParts(m) ==
    /\ \A i \in 1..Len(m["parts"]) :
          /\ m["parts"][i].type \notin {"step-start", "file"}
          /\ ~CarriesConfidentialKey(m["parts"][i])
    /\ \A k \in CorrelationKeys(m["parts"]) : Len(Members(m["parts"], k)) = 1

\* C13: decoding the envelope {id: m.id, parent_id: p, content: encode(m)}
\* gives parentId p and a message with m's id and m's top-level fields
\* other than parts; when encode has nothing to filter, merge or strip in
\* m, the decoded message equals m.
C13_RoundTrip ==
    phase = "decoded" =>
        /\ decoded.parentId = stored.parent_id
        /\ decoded.message["id"] = message["id"]
        /\ DOMAIN decoded.message = DOMAIN message
        /\ \A k \in (DOMAIN message) \ {"parts"} :
              decoded.message[k] = message[k]
        /\ EncodeKeepsParts(message) => decoded.message = message

\* a message that encode leaves as it is, with a keyed reasoning fragment,
\* a namespace that is no map and a further top-level field, went through
\* encode and decode
C13_Witness ==
    /\ phase = "decoded"
    /\ EncodeKeepsParts(message)
    /\ "data" \in DOMAIN message
    /\ CorrelationKeys(message["parts"]) # {}
    /\ \E i \in 1..Len(message["parts"]) :
          /\ message["parts"][i].providerMetadata.kind = "object"
          /\ \E j \in 1..Len(message["parts"][i].providerMetadata.entries) :
                ~message["parts"][i].providerMetadata.entries[j].isObject

\* the reasoning fragments for which getItemId returns nothing or ""
KeylessReasoning(parts) ==
    SelectSeq(parts, LAMBDA p :
        /\ p.type = "reasoning"
        /\ ~(getItemId(p).found /\ getItemId(p).value # ""))

\* C14: the reasoning fragments without correlation key (no metadata, no
\* namespace with itemId, or itemId "") come out of encode one for one, in
\* order, each with its own text and state, however many of them there are
\* and whatever their texts.
C14_KeylessNeverMerged ==
    Encoded =>
        LET before == KeylessReasoning(message["parts"])
            after  == KeylessReasoning(encoded["parts"])
        IN  /\ Len(after) = Len(before)
            /\ \A i \in 1..Len(before) :
                  /\ after[i].text = before[i].text
                  /\ after[i].state = before[i].state

\* two keyless reasoning fragments with the same text and two with the
\* itemId "" have been encoded
C14_Witness ==
    /\ phase = "encoded"
    /\ \E i, j \in 1..Len(message["parts"]) :
          /\ i < j
          /\ message["parts"][i].type = "reasoning"
          /\ message["parts"][i].providerMetadata.kind = "absent"
          /\ message["parts"][j] = message["parts"][i]
    /\ \E i \in 1..Len(message["parts"]) :
          /\ message["parts"][i].type = "reasoning"
          /\ getItemId(message["parts"][i]) = [found |-> TRUE, value |-> ""]

\* C15: mergeReasoningParts applied to the sequence it returned gives that
\* sequence again, fragment by fragment.
C15_MergerIdempotent ==
    phase = "remerged" => remerged = mergedParts

\* the first run merged a group of two, the second run had a group of one
C15_Witness ==
    /\ phase = "remerged"
    /\ Len(mergedParts) < Len(filteredParts)
    /\ CorrelationKeys(mergedParts) # {}
    /\ \E i \in 1..Len(mergedParts) : mergedParts[i].type = "text"

\* the indices of the input fragments that encode emits a fragment for:
\* not a step-start or file fragment, not a later member of a group
EmittingIndices(parts) ==
    {i \in 1..Len(parts) :
        /\ parts[i].type \notin {"step-start", "file"}
        /\ \A k \in CorrelationKeys(parts) :
              HasCorrelationKey(parts[i], k) =>
                  \A j \in 1..(i - 1) : ~HasCorrelationKey(parts[j], k)}

\* the j-th smallest element of a set of numbers
NthOf(S, j) == CHOOSE i \in S : Cardinality({x \in S : x <= i}) = j

\* C20: the fragments encode emits stand in the order of the input
\* fragments they come from, a merged fragment where the first member of
\* its group stood; a merged text holds the members' texts in input order.
C20_OrderPreserved ==
    Encoded =>
        LET parts == message["parts"]
            from  == EmittingIndices(parts)
        IN  /\ Len(encoded["parts"]) = Cardinality(from)
            /\ \A j \in 1..Len(encoded["parts"]) :
                  LET src == parts[NthOf(from, j)]
                      out == encoded["parts"][j]
                  IN  /\ out.type = src.type
                      /\ out.state = src.state
                      /\ getItemId(out) = getItemId(src)
                      /\ IF \E k \in CorrelationKeys(parts) :
                                HasCorrelationKey(src, k)
                         THEN out.text = BlankLineJoin(
                                  Members(parts, getItemId(src).value))
                         ELSE out.text = src.text

\* a group whose two members stand on either side of a text fragment has
\* been encoded
C20_Witness ==
    /\ phase = "encoded"
    /\ Len(message["parts"]) = 3
    /\ message["parts"][2].type = "text"
    /\ \E k \in CorrelationKeys(message["parts"]) :
          /\ HasCorrelationKey(message["parts"][1], k)
          /\ HasCorrelationKey(message["parts"][3], k)
          /\ message["parts"][1].text # message["parts"][3].text

\* the part types that stand for a tool invocation
ToolTypes == {"tool-search"}

ToolFragments(parts) == SelectSeq(parts, LAMBDA p : p.type \in ToolTypes)

\* the metadata without the confidential keys of its namespaces
WithoutConfidentialKeys(md) ==
    IF md.kind # "object" THEN md
    ELSE [md EXCEPT !.entries =
            [i \in 1..Len(@) |->
                [@[i] EXCEPT !.fields =
                    SelectSeq(@, LAMBDA f :
                        f.key \notin {"reasoningEncryptedContent",
                                      "encryptedContent"})]]]

\* C21 as stated: encode emits every tool-invocation fragment exactly as it
\* was in the input, with all of its fields unchanged, its providerMetadata
\* included.
C21_ToolFragmentsUnchanged ==
    Encoded =>
        ToolFragments(encoded["parts"]) = ToolFragments(message["parts"])

\* C21 as amended: encode emits every tool-invocation fragment, in the
\* input's order, with every field other than providerMetadata unchanged
\* and with the providerMetadata of the input less the confidential keys of
\* its namespaces.
C21_ToolFragmentsSanitizedOnly ==
    Encoded =>
        LET out == ToolFragments(encoded["parts"])
            inp == ToolFragments(message["parts"])
        IN  /\ Len(out) = Len(inp)
            /\ \A i \in 1..Len(inp) :
                  out[i] = [inp[i] EXCEPT !.providerMetadata =
                                WithoutConfidentialKeys(@)]

\* a tool-invocation fragment that carries a confidential key next to its
\* itemId has been encoded, after a reasoning fragment of the same itemId
C21_Witness ==
    /\ phase = "encoded"
    /\ Len(message["parts"]) >= 2
    /\ message["parts"][1].type = "reasoning"
    /\ HasCorrelationKey(message["parts"][1], "rs1")
    /\ message["parts"][2].type \in ToolTypes
    /\ CarriesConfidentialKey(message["parts"][2])
    /\ getItemId(message["parts"][2]).value = "rs1"

\* the providers of the metadata that are maps with an `itemId` key
ItemIdProviders(md) ==
    {i \in 1..Len(md.entries) :
        /\ md.entries[i].isObject
        /\ \E j \in 1..Len(md.entries[i].fields) :
              md.entries[i].fields[j].key = "itemId"}

\* C22: getItemId returns absent for a fragment whose providerMetadata is
\* absent or not a map; otherwise it returns, coerced to string, the itemId
\* of the first namespace in enumeration order whose value is a map with the
\* key itemId, and absent exactly when no namespace has that key.
C22_GetItemId ==
    phase = "probed" =>
        LET md == probe.providerMetadata IN
        IF md.kind # "object" THEN ~foundId.found
        ELSE /\ foundId.found <=> ItemIdProviders(md) # {}
             /\ \A i \in ItemIdProviders(md) :
                   (\A j \in ItemIdProviders(md) : i <= j) =>
                       \E f \in 1..Len(md.entries[i].fields) :
                           /\ md.entries[i].fields[f].key = "itemId"
                           /\ foundId.value =
                                  JSString(md.entries[i].fields[f].value)

\* getItemId has run on a fragment whose first namespace is no map and
\* whose second holds a numeric itemId, and returned it as a string
C22_Witness ==
    /\ phase = "probed"
    /\ probe.providerMetadata.kind = "object"
    /\ Len(probe.providerMetadata.entries) = 2
    /\ ~probe.providerMetadata.entries[1].isObject
    /\ ItemIdProviders(probe.providerMetadata) = {2}
    /\ foundId = [found |-> TRUE, value |-> "42"]

\* the namespaces of the metadata that are non-empty maps of nothing but
\* deny-listed keys
AllDeniedNamespaces(md) ==
    IF md.kind # "object" THEN {}
    ELSE {i \in 1..Len(md.entries) :
            /\ md.entries[i].isObject
            /\ md.entries[i].fields # <<>>
            /\ \A j \in 1..Len(md.entries[i].fields) :
                  md.entries[i].fields[j].key \in
                      {"reasoningEncryptedContent", "encryptedContent"}}

\* `after` has as many namespaces as `before`, and namespace i under the
\* same name as an empty map
KeptAsEmptyMap(before, after, i) ==
    /\ after.kind = "object"
    /\ Len(after.entries) = Len(before.entries)
    /\ after.entries[i].provider = before.entries[i].provider
    /\ after.entries[i].isObject
    /\ after.entries[i].fields = <<>>

C25_IdIsEnvelopeId ==
    phase = "loaded" => getId(decoded.message) = stored.id

\* C25 as amended: the identifier of the decoded message is the envelope's
\* for every envelope whose payload has no id field of its own, and the
\* payload's id for an envelope whose payload has one.
C25_IdIsEnvelopeIdUnlessPayloadHasOne ==
    phase = "loaded" =>
        IF "id" \in DOMAIN stored.content
        THEN getId(decoded.message) = stored.content["id"]
        ELSE getId(decoded.message) = stored.id

\* an envelope other than the one encode's message came from, whose payload
\* has a field this adapter does not know and no id, has been decoded
C25_Witness ==
    /\ phase = "loaded"
    /\ stored.id = "msg-2"
    /\ "version" \in DOMAIN stored.content
    /\ "id" \notin DOMAIN stored.content
    /\ Len(stored.content["parts"]) > 0
    /\ getId(decoded.message) = "msg-2"

\* C28: encode is idempotent: encoding the message obtained by putting
\* m's identifier back on encode(m) yields a value equal to encode(m).
C28_EncodeIdempotent ==
    phase = "reencoded" => reencoded = encoded

\* a message with a marker fragment and two reasoning fragments of one
\* correlation key, the later one carrying a confidential key, has been
\* encoded and its encoded form encoded again
C28_Witness ==
    /\ phase = "reencoded"
    /\ Len(message["parts"]) = 3
    /\ Len(encoded["parts"]) = 1
    /\ \E i \in 1..3 : message["parts"][i].type = "step-start"
    /\ \E i \in 1..3 :
          /\ HasCorrelationKey(message["parts"][i], "rs1")
          /\ CarriesConfidentialKey(message["parts"][i])
    /\ HasCorrelationKey(reencoded["parts"][1], "rs1")
    /\ "annotations" \in DOMAIN reencoded

---------------------------------------------------------------------------
(* Properties of the duration tracker (checked under Spec) *)

\* the keys of the reasoning fragments of a snapshot
SnapshotKeys(msgs) ==
    UNION { {TimingKey(msgs[m], i) :
                i \in {i \in 1..Len(msgs[m]["parts"]) :
                         msgs[m]["parts"][i].type = "reasoning"}} :
            m \in 1..Len(msgs) }

\* the value of providerMetadata["assistant-ui"].duration, Undef if missing
StoredDuration(part) ==
    LET md == part.providerMetadata
        found == IF md.kind # "object" THEN {}
                 ELSE {e \in {md.entries[i] : i \in 1..Len(md.entries)} :
                         e.provider = "assistant-ui" /\ e.isObject}
        values == UNION { {e.fields[j].value :
                             j \in {j \in 1..Len(e.fields) :
                                      e.fields[j].key = "duration"}} :
                          e \in found }
    IN  IF values = {} THEN Undef ELSE CHOOSE v \in values : TRUE

\* d = max(0, ceil(diff / 1000))
IsClampedCeil(d, diff) ==
    IF diff <= 0 THEN d = 0
    ELSE 1000 * (d - 1) < diff /\ diff <= 1000 * d

\* C5: a key started at clock reading T0 and finalized at T1 has the
\* duration max(0, ceil((T1 - T0) / 1000)); every stored duration is a
\* non-negative integer, also when T1 is earlier than T0.
C5_DurationIsClampedCeil ==
    /\ \A key \in DOMAIN reasoningDurations :
          reasoningDurations[key] \in Nat
    /\ \A key \in DOMAIN reasoningTimings :
          reasoningTimings[key].hasEnd =>
              /\ key \in DOMAIN reasoningDurations
              /\ IsClampedCeil(reasoningDurations[key],
                               reasoningTimings[key].end
                               - reasoningTimings[key].start)

\* one key was finalized after its start by a fraction of a second more
\* than a whole one, another at a clock reading earlier than its start
C5_Witness ==
    \E k1, k2 \in DOMAIN reasoningTimings :
        /\ reasoningTimings[k1].hasEnd
        /\ reasoningTimings[k1].end - reasoningTimings[k1].start = 1400
        /\ reasoningDurations[k1] = 2
        /\ reasoningTimings[k2].hasEnd
        /\ reasoningTimings[k2].end < reasoningTimings[k2].start
        /\ reasoningDurations[k2] = 0

\* C6: while a key stays tracked its start never changes, and once it has
\* an end timestamp its start, end and duration never change again,
\* whatever is observed afterwards.
C6_FinalizedOnce ==
    [][\A key \in (DOMAIN reasoningTimings) \cap (DOMAIN reasoningTimings') :
          /\ reasoningTimings'[key].start = reasoningTimings[key].start
          /\ reasoningTimings[key].hasEnd =>
                /\ reasoningTimings'[key] = reasoningTimings[key]
                /\ key \in DOMAIN reasoningDurations =>
                      /\ key \in DOMAIN reasoningDurations'
                      /\ reasoningDurations'[key] = reasoningDurations[key]
      ]_vars

\* the timing effect has just run over a snapshot in which a key that was
\* already finalized is in progress again
C6_Witness ==
    /\ pc = "cleanup"
    /\ \E m \in 1..Len(render.messages) :
          \E i \in 1..Len(render.messages[m]["parts"]) :
             LET key == TimingKey(render.messages[m], i) IN
             /\ render.messages[m]["parts"][i].type = "reasoning"
             /\ render.messages[m]["parts"][i].state = "streaming"
             /\ key \in DOMAIN render.reasoningTimings
             /\ render.reasoningTimings[key].hasEnd
             /\ key \in DOMAIN reasoningTimings

\* every done reasoning fragment whose key has a final duration stores it
AllStored(msgs, durations) ==
    \A m \in 1..Len(msgs) : \A i \in 1..Len(msgs[m]["parts"]) :
        LET part == msgs[m]["parts"][i]
            key  == TimingKey(msgs[m], i)
        IN  (/\ part.type = "reasoning"
             /\ part.state = "done"
             /\ key \in DOMAIN durations)
            => StoredDuration(part) = Num(durations[key])

\* C7: a write-back pass that writes leaves every finalized duration
\* stored, and a pass over a snapshot that already stores them changes
\* nothing: the message list stays as it is and setMessages is not called.
C7_WriteBackIdempotent ==
    [][/\ (pc = "writeback" /\ setMessagesCalled')
            => AllStored(messages', render.reasoningDurations)
       /\ (/\ pc = "writeback"
           /\ AllStored(render.messages, render.reasoningDurations))
            => (messages' = messages /\ ~setMessagesCalled')
      ]_vars

\* a write-back pass ran over a snapshot in which a done fragment already
\* stored its key's final duration, and did not call setMessages
C7_Witness ==
    /\ pc = "idle"
    /\ scheduled.writeBack
    /\ ~setMessagesCalled
    /\ messages = render.messages
    /\ \E m \in 1..Len(render.messages) :
          \E i \in 1..Len(render.messages[m]["parts"]) :
             LET part == render.messages[m]["parts"][i]
                 key  == TimingKey(render.messages[m], i)
             IN  /\ part.type = "reasoning"
                 /\ part.state = "done"
                 /\ key \in DOMAIN render.reasoningDurations
                 /\ StoredDuration(part) =
                        Num(render.reasoningDurations[key])

\* C8: the write-back changes a fragment only if it is a reasoning fragment
\* in state done whose key has a final duration that differs from the
\* duration it stores; every other fragment is returned unchanged.
C8_WriteBackGuard ==
    [][(pc = "writeback" /\ setMessagesCalled') =>
          /\ Len(messages') = Len(render.messages)
          /\ \A m \in 1..Len(render.messages) :
                /\ Len(messages'[m]["parts"]) =
                       Len(render.messages[m]["parts"])
                /\ \A i \in 1..Len(render.messages[m]["parts"]) :
                      LET part == render.messages[m]["parts"][i]
                          key  == TimingKey(render.messages[m], i)
                      IN  messages'[m]["parts"][i] # part =>
                            /\ part.type = "reasoning"
                            /\ part.state = "done"
                            /\ key \in DOMAIN render.reasoningDurations
                            /\ StoredDuration(part) #
                                   Num(render.reasoningDurations[key])
      ]_vars

\* a write-back pass wrote while the snapshot also held a fragment still
\* in progress whose key was finalized, and a text fragment
C8_Witness ==
    /\ pc = "idle"
    /\ setMessagesCalled
    /\ \E m \in 1..Len(render.messages) :
          \E i \in 1..Len(render.messages[m]["parts"]) :
             /\ render.messages[m]["parts"][i].type = "reasoning"
             /\ render.messages[m]["parts"][i].state = "streaming"
             /\ TimingKey(render.messages[m], i)
                    \in DOMAIN render.reasoningDurations

\* C9: once the timing effect and the cleanup effect have run for a
\* snapshot, every key of the tracked timings and durations is the key of
\* a reasoning fragment of that snapshot; an empty snapshot leaves the
\* tracker empty.
C9_NoStaleKeys ==
    pc \in {"writeback", "idle"} =>
        /\ DOMAIN reasoningTimings \subseteq SnapshotKeys(render.messages)
        /\ DOMAIN reasoningDurations \subseteq SnapshotKeys(render.messages)
        /\ render.messages = <<>> =>
              (DOMAIN reasoningTimings = {} /\ DOMAIN reasoningDurations = {})

\* the cleanup effect has just purged a finalized key whose fragment is no
\* longer in the snapshot
C9_Witness ==
    /\ pc = "writeback"
    /\ scheduled.cleanup
    /\ \E key \in DOMAIN render.reasoningDurations :
          /\ key \notin SnapshotKeys(render.messages)
          /\ key \notin DOMAIN reasoningTimings

\* the reasoning fragments of a snapshot whose tracker key is `key`
FragmentsOf(msgs, key) ==
    UNION { {msgs[m]["parts"][i] :
                i \in {i \in 1..Len(msgs[m]["parts"]) :
                         /\ msgs[m]["parts"][i].type = "reasoning"
                         /\ TimingKey(msgs[m], i) = key}} :
            m \in 1..Len(msgs) }

\* the step gives `key` its end timestamp
Finalizes(key) ==
    /\ key \in DOMAIN reasoningTimings'
    /\ reasoningTimings'[key].hasEnd
    /\ ~(key \in DOMAIN reasoningTimings /\ reasoningTimings[key].hasEnd)

\* C16: a key gets its end timestamp and duration only in a pass over a
\* snapshot in which every reasoning fragment carrying the key is done, so
\* that the duration runs to the completion of the whole unit.
C16_FinalizedWhenUnitComplete ==
    [][\A key \in DOMAIN reasoningTimings' :
          Finalizes(key) =>
              \A part \in FragmentsOf(render.messages, key) :
                  part.state = "done"
      ]_vars

\* C17 as stated: for a unit that reaches finalized the write-back changes
\* the message list exactly once while the key stays tracked; no write-back
\* pass rewrites a key that a pass has already written.
C17_WrittenExactlyOnce ==
    [][pc = "writeback" =>
          \A key \in rewrote' : key \notin DOMAIN written
      ]_vars

\* C17 as amended: once the write-back has written a unit's duration, no
\* write-back pass changes the message list for that unit again until
\* upstream delivers a new snapshot; the passes in between leave the list
\* untouched for the unit.
C17_NoRewriteWithoutSnapshot ==
    [][pc = "writeback" =>
          \A key \in rewrote' :
              key \in DOMAIN written => written[key] = "old"
      ]_vars

\* a write-back pass has run over the snapshot that an earlier pass wrote a
\* unit's duration into, with no snapshot in between, and wrote nothing
C17_Witness ==
    /\ pc = "idle"
    /\ scheduled.writeBack
    /\ ~setMessagesCalled
    /\ messages = render.messages
    /\ \E key \in DOMAIN written :
          /\ written[key] = "fresh"
          /\ key \in DOMAIN render.reasoningDurations
          /\ \E part \in FragmentsOf(render.messages, key) :
                /\ part.state = "done"
                /\ StoredDuration(part) =
                       Num(render.reasoningDurations[key])

\* C18: per key the tracked state goes absent -> running in a pass that
\* sees a fragment in progress, running -> finalized in a later pass that
\* sees a done fragment, or to absent; a key is never finalized in the
\* pass that first tracks it, and only finalized keys have a duration.
C18_StateMachine ==
    [][/\ \A key \in (DOMAIN reasoningTimings') \ (DOMAIN reasoningTimings) :
             /\ ~reasoningTimings'[key].hasEnd
             /\ \E part \in FragmentsOf(render.messages, key) :
                   part.state = "streaming"
       /\ \A key \in (DOMAIN reasoningTimings') \cap (DOMAIN reasoningTimings) :
             reasoningTimings'[key] # reasoningTimings[key] =>
                 /\ ~reasoningTimings[key].hasEnd
                 /\ reasoningTimings'[key].hasEnd
                 /\ \E part \in FragmentsOf(render.messages, key) :
                       part.state = "done"
       /\ \A key \in DOMAIN reasoningDurations' :
             /\ key \in DOMAIN reasoningTimings'
             /\ reasoningTimings'[key].hasEnd
      ]_vars

\* C19: when upstream stops delivering snapshots, from some point on every
\* done reasoning fragment whose key is finalized stores the key's tracked
\* duration in providerMetadata["assistant-ui"].duration.
C19_DurationEventuallyStored ==
    <>[][~Upstream]_vars => <>[]AllStored(messages, reasoningDurations)

\* the write-back has just stored a finalized key's duration of two
\* seconds into a done fragment that did not carry it
C19_Witness ==
    /\ pc = "idle"
    /\ setMessagesCalled
    /\ AllStored(messages, reasoningDurations)
    /\ \E key \in rewrote \cap DOMAIN reasoningDurations :
          /\ reasoningTimings[key].hasEnd
          /\ reasoningDurations[key] = 2
          /\ \E part \in FragmentsOf(render.messages, key) :
                part.state = "done" /\ StoredDuration(part) = Undef
          /\ \E part \in FragmentsOf(messages, key) :
                part.state = "done" /\ StoredDuration(part) = Num(2)

\* the part without providerMetadata["assistant-ui"].duration; a namespace
\* or a metadata that held nothing else counts as missing
LessDuration(part) ==
    LET md == part.providerMetadata IN
    IF md.kind # "object" THEN part
    ELSE LET entries ==
               SelectSeq(
                 [i \in 1..Len(md.entries) |->
                    IF md.entries[i].provider = "assistant-ui"
                       /\ md.entries[i].isObject
                    THEN [md.entries[i] EXCEPT !.fields =
                            SelectSeq(@, LAMBDA f : f.key # "duration")]
                    ELSE md.entries[i]],
                 LAMBDA e : ~(/\ e.provider = "assistant-ui"
                              /\ e.isObject
                              /\ e.fields = <<>>))
         IN  [part EXCEPT !.providerMetadata =
                 IF entries = <<>> THEN MetaAbsent ELSE MetaObject(entries)]

\* the two message lists differ in nothing but stored durations
SameButDurations(a, b) ==
    /\ Len(a) = Len(b)
    /\ \A m \in 1..Len(a) :
          /\ DOMAIN a[m] = DOMAIN b[m]
          /\ \A k \in (DOMAIN a[m]) \ {"parts"} : a[m][k] = b[m][k]
          /\ Len(a[m]["parts"]) = Len(b[m]["parts"])
          /\ \A i \in 1..Len(a[m]["parts"]) :
                LessDuration(a[m]["parts"][i]) = LessDuration(b[m]["parts"][i])

\* C24: a write-back never discards an upstream update: whenever it
\* replaces the live message list, the list it writes differs from the most
\* recent upstream snapshot only in stored durations, also when a newer
\* snapshot arrived after the one the write-back was computed from.
C24_NoUpstreamUpdateLost ==
    [][(pc = "writeback" /\ setMessagesCalled') =>
          SameButDurations(messages', messages)
      ]_vars

\* the namespaces of a part other than "assistant-ui", in their order
OtherNamespaces(part) ==
    SelectSeq(part.providerMetadata.entries,
              LAMBDA e : e.provider # "assistant-ui")

\* the keys of the part's "assistant-ui" namespace other than duration
OtherAssistantUiKeys(part) ==
    LET own == SelectSeq(part.providerMetadata.entries,
                         LAMBDA e : e.provider = "assistant-ui" /\ e.isObject)
    IN  IF own = <<>> THEN <<>>
        ELSE SelectSeq(own[1].fields, LAMBDA f : f.key # "duration")

\* C29: a write-back that changes a reasoning fragment changes only
\* providerMetadata["assistant-ui"].duration: the fragment's type, text and
\* state, every other namespace, every other key of the assistant-ui
\* namespace, the correlation key and the tracker key are unchanged, as are
\* all other fragments and messages.
C29_OnlyDurationChanges ==
    [][(pc = "writeback" /\ setMessagesCalled') =>
          /\ Len(messages') = Len(render.messages)
          /\ \A m \in 1..Len(render.messages) :
                LET old == render.messages[m]
                    new == messages'[m]
                IN  /\ DOMAIN new = DOMAIN old
                    /\ \A k \in (DOMAIN old) \ {"parts"} : new[k] = old[k]
                    /\ Len(new["parts"]) = Len(old["parts"])
                    /\ \A i \in 1..Len(old["parts"]) :
                          LET before == old["parts"][i]
                              after  == new["parts"][i]
                          IN  \/ after = before
                              \/ /\ before.type = "reasoning"
                                 /\ after.type = before.type
                                 /\ after.text = before.text
                                 /\ after.state = before.state
                                 /\ OtherNamespaces(after) =
                                        OtherNamespaces(before)
                                 /\ OtherAssistantUiKeys(after) =
                                        OtherAssistantUiKeys(before)
                                 /\ StoredDuration(after) # StoredDuration(before)
                                 /\ getItemId(after) = getItemId(before)
                                 /\ TimingKey(new, i) = TimingKey(old, i)
      ]_vars

\* the write-back has just written a duration into a done fragment whose
\* assistant-ui namespace held a key of its own, in front of the namespace
\* that holds the fragment's itemId
C29_Witness ==
    /\ pc = "idle"
    /\ setMessagesCalled
    /\ Len(messages) = Len(render.messages)
    /\ \E m \in 1..Len(render.messages) :
          \E i \in 1..Len(render.messages[m]["parts"]) :
             LET before == render.messages[m]["parts"][i]
                 after  == messages[m]["parts"][i]
             IN  /\ Len(messages[m]["parts"]) >= i
                 /\ before.providerMetadata = mdNoted
                 /\ StoredDuration(before) = Undef
                 /\ StoredDuration(after) # Undef
                 /\ OtherAssistantUiKeys(after) = <<Field("note", Str("n"))>>
                 /\ getItemId(after).value = "rs1"

\* C30: a key has an entry in the tracked durations if and only if its
\* timing entry has an end timestamp: no duration exists for a key without a
\* timing entry, and a key with a start but no end has no duration.
C30_DurationIffEnded ==
    /\ \A key \in DOMAIN reasoningDurations :
          /\ key \in DOMAIN reasoningTimings
          /\ reasoningTimings[key].hasEnd
    /\ \A key \in DOMAIN reasoningTimings :
          reasoningTimings[key].hasEnd <=> key \in DOMAIN reasoningDurations

\* after a pass, one key is finalized and has its duration, while another
\* key, whose part is in progress, has a start, no end and no duration
C30_Witness ==
    /\ pc = "idle"
    /\ \E k1, k2 \in DOMAIN reasoningTimings :
          /\ reasoningTimings[k1].hasEnd
          /\ k1 \in DOMAIN reasoningDurations
          /\ ~reasoningTimings[k2].hasEnd
          /\ k2 \notin DOMAIN reasoningDurations
          /\ \E part \in FragmentsOf(messages, k2) : part.state = "streaming"

\* no render is pending and no effect is left to run
Quiescent ==
    /\ pc = "idle"
    /\ ~depsChanged.messages
    /\ ~depsChanged.timings
    /\ ~depsChanged.durations

\* C27: if upstream delivers no further snapshots, the three tracker
\* effects reach a quiescent state after finitely many runs and stay in it:
\* no effect changes the timings, the durations or the message list any
\* more, so the write-back's setMessages does not re-trigger itself forever.
C27_EffectsSettle ==
    <>[][~Upstream]_vars => <>[]Quiescent

\* the effects have settled after the write-back stored a key's duration:
\* the pass over the list it wrote found nothing to change
C27_Witness ==
    /\ Quiescent
    /\ messages = render.messages
    /\ \E key \in DOMAIN written :
          /\ written[key] = "fresh"
          /\ key \in DOMAIN reasoningDurations
          /\ \E part \in FragmentsOf(messages, key) :
                StoredDuration(part) = Num(reasoningDurations[key])

\* every reasoning fragment of the message is done
AllReasoningDone(msg) ==
    \A i \in 1..Len(msg["parts"]) :
        msg["parts"][i].type = "reasoning" => msg["parts"][i].state = "done"

\* C26: once the tracker is quiescent on a message whose reasoning
\* fragments are all done, encode of the message yields, for every
\* correlation key the tracker finalized, a merged reasoning fragment whose
\* providerMetadata["assistant-ui"].duration is the tracked duration of
\* that key.
C26_EncodedDurationIsTracked ==
    Quiescent =>
        \A m \in 1..Len(messages) :
            AllReasoningDone(messages[m]) =>
                \A k \in CorrelationKeys(messages[m]["parts"]) :
                    LET key == messages[m]["id"] \o ":" \o k
                        out == encode(messages[m])["parts"]
                    IN  key \in DOMAIN reasoningDurations =>
                          /\ Len(Members(out, k)) = 1
                          /\ StoredDuration(Members(out, k)[1]) =
                                 Num(reasoningDurations[key])

\* the tracker is quiescent on a message of two done reasoning fragments of
\* one correlation key, finalized after more than one second, which encode
\* merges into one fragment
C26_Witness ==
    /\ Quiescent
    /\ Len(messages) = 1
    /\ Len(messages[1]["parts"]) = 2
    /\ AllReasoningDone(messages[1])
    /\ CorrelationKeys(messages[1]["parts"]) = {"rs1"}
    /\ Len(Members(messages[1]["parts"], "rs1")) = 2
    /\ (messages[1]["id"] \o ":rs1") \in DOMAIN reasoningDurations
    /\ reasoningDurations[messages[1]["id"] \o ":rs1"] = 2
    /\ Len(encode(messages[1])["parts"]) = 1

=============================================================================
